---- MODULE Spec2Model ----
(***************************************************************************)
(* Model of the browser-side glue of cursorcode-ai:                        *)
(*   - the axios response interceptor of apps/web/lib/api.ts (401 -> auto  *)
(*     sign out, guarded by the _retry flag of the request config);        *)
(*   - reportFrontendError and the window.onerror /                        *)
(*     window.onunhandledrejection hooks of apps/web/lib/monitoring.ts.    *)
(* The page runs one cooperative thread: every action below is the code    *)
(* that runs between two suspension points (an await whose promise is      *)
(* settled by the network or by next-auth).                                *)
(***************************************************************************)
EXTENDS Integers, Sequences, FiniteSets, TLC

\* ------------------------------------------------------------------ bounds
MaxCtx == 2        \* request configs (contexts) the callers create
MaxReq == 3        \* requests issued through the axios instance

Contexts == 1..MaxCtx
Requests == 1..MaxReq

\* ------------------------------------------------------- program constants
Unauthorized == 401

\* HTTP error statuses the backend answers with in the model: the
\* session-expiry status and one other.
ErrorStatuses == {Unauthorized, 500}

\* What the transport hands to the response interceptors.  status = 0 stands
\* for error.response being undefined (timeout: code ECONNABORTED after the
\* 15 s timeout; network: no answer at all).
NoError == [kind |-> "none", status |-> 0]
HttpError(s) == [kind |-> "http", status |-> s]
TimeoutError == [kind |-> "timeout", status |-> 0]
NetworkError == [kind |-> "network", status |-> 0]
RequestErrors == {HttpError(s) : s \in ErrorStatuses} \cup {TimeoutError, NetworkError}

\* The error signOut rejects with when the sign-out call itself fails.
SignOutError == [kind |-> "signout", status |-> 0]

NoResult == [type |-> "pending", err |-> NoError]
Fulfilled == [type |-> "fulfilled", err |-> NoError]
Rejected(e) == [type |-> "rejected", err |-> e]

\* ------------------------------------------------- Resilient request client
VARIABLES
    dev,          \* process.env.NODE_ENV === "development"
    ctxLive,      \* ctxLive[c]: the caller has created request config c
    retry,        \* retry[c]: config c carries _retry === true
    guardSets,    \* guardSets[c]: times _retry of c went from falsy to true
    rpc,          \* rpc[r]: "idle" | "inflight" | "awaitSignOut" | "settled"
    rcfg,         \* rcfg[r]: the config (error.config) of request r, 0 if none yet
    rerr,         \* rerr[r]: the error the transport produced for r
    rsignOut,     \* rsignOut[r]: signOut calls made by the handler run for r
    rguardOnEntry,\* rguardOnEntry[r]: _retry of the config when the handler started
    rguardAtCall, \* rguardAtCall[r]: _retry of the config at the moment signOut was called
    rsignOutEnd,  \* rsignOutEnd[r]: "none" | "resolved" | "rejected" (the awaited signOut)
    rresult,      \* rresult[r]: what the caller's promise settled with
    rlog          \* rlog[r]: console lines written while handling r

clientVars == <<dev, ctxLive, retry, guardSets, rpc, rcfg, rerr, rsignOut,
                rguardOnEntry, rguardAtCall, rsignOutEnd, rresult, rlog>>

\* State of the error telemetry (monitoring.ts), used further down.
VARIABLES
    installed,    \* the module body of monitoring.ts has run in the browser
    winOnError,   \* window.onerror: "none" | "prev" | "hook"
    winOnRejection, \* window.onunhandledrejection: "none" | "prev" | "hook"
    originalOnError,              \* const originalOnError
    originalOnUnhandledRejection, \* const originalOnUnhandledRejection
    evLog,        \* one record per event the runtime raised, in order
    tpc,          \* tpc[t]: "unused" | "fetching" | "readingText" | "done"
    targs,        \* targs[t]: the arguments (error, extra) of call t
    tpayload,     \* tpayload[t]: the payload object built by call t
    tposts,       \* tposts[t]: fetch calls (POSTs) issued by call t
    tend,         \* tend[t]: "none" | "ok" | "notOk" | "threw"
    tpromise,     \* tpromise[t]: "none" | "pending" | "fulfilled" | "rejected"
    tlog          \* tlog[t]: console lines written by call t

telemetryVars == <<installed, winOnError, winOnRejection, originalOnError,
                   originalOnUnhandledRejection, evLog, tpc, targs, tpayload,
                   tposts, tend, tpromise, tlog>>

\* Variants of the 401 test: the wrong status, no guard test, any error status.
ShouldRecoverWrongStatus(status, guard) == status = 500 /\ ~guard
ShouldRecoverUnguarded(status, guard) == status = Unauthorized
ShouldRecoverAnyError(status, guard) == status >= 400 /\ ~guard
\* Variant: the guard test is inverted.
ShouldRecoverInverted(status, guard) == status = Unauthorized /\ guard

\* error.response?.status === 401 && !originalRequest?._retry
ShouldRecover(status, guard) == status = Unauthorized /\ ~guard

\* Variant: the flag is written only after the awaited signOut.
SetGuardLate(guard) == guard

\* originalRequest!._retry = true
SetGuard(guard) == TRUE

\* Variant: no try/catch around signOut, its rejection becomes the result.
RejectWithLast(error, signOutFailure) ==
    IF signOutFailure # NoError THEN Rejected(signOutFailure) ELSE Rejected(error)

\* return Promise.reject(error): the handler always rejects with the error it
\* was given; signOutFailure is the caught signOutError (NoError if none).
RejectWith(error, signOutFailure) == Rejected(error)

\* Lines written by the tail of the handler (development logging only).
DevLog(line) == IF dev THEN {line} ELSE {}

ClientInit ==
    /\ dev \in BOOLEAN
    /\ ctxLive = [c \in Contexts |-> FALSE]
    /\ retry = [c \in Contexts |-> FALSE]
    /\ guardSets = [c \in Contexts |-> 0]
    /\ rpc = [r \in Requests |-> "idle"]
    /\ rcfg = [r \in Requests |-> 0]
    /\ rerr = [r \in Requests |-> NoError]
    /\ rsignOut = [r \in Requests |-> 0]
    /\ rguardOnEntry = [r \in Requests |-> FALSE]
    /\ rguardAtCall = [r \in Requests |-> FALSE]
    /\ rsignOutEnd = [r \in Requests |-> "none"]
    /\ rresult = [r \in Requests |-> NoResult]
    /\ rlog = [r \in Requests |-> {}]

\* The caller issues request r with a config it has just built (a fresh
\* context: _retry absent).  The request interceptor logs in development and
\* returns the config unchanged.
SendFresh(r, c) ==
    /\ rpc[r] = "idle"
    /\ ~ctxLive[c]
    /\ ctxLive' = [ctxLive EXCEPT ![c] = TRUE]
    /\ rpc' = [rpc EXCEPT ![r] = "inflight"]
    /\ rcfg' = [rcfg EXCEPT ![r] = c]
    /\ rlog' = [rlog EXCEPT ![r] = DevLog("request")]
    /\ UNCHANGED <<dev, retry, guardSets, rerr, rsignOut, rguardOnEntry, rguardAtCall, rsignOutEnd, rresult>>
    /\ UNCHANGED telemetryVars

\* Variant: sending again starts from a config whose _retry is cleared.
SendAgainCleared(r, c) ==
    /\ rpc[r] = "idle"
    /\ ctxLive[c]
    /\ rpc' = [rpc EXCEPT ![r] = "inflight"]
    /\ rcfg' = [rcfg EXCEPT ![r] = c]
    /\ retry' = [retry EXCEPT ![c] = FALSE]
    /\ rlog' = [rlog EXCEPT ![r] = DevLog("request")]
    /\ UNCHANGED <<dev, ctxLive, guardSets, rerr, rsignOut, rguardOnEntry, rguardAtCall, rsignOutEnd, rresult>>
    /\ UNCHANGED telemetryVars

\* The caller sends again with a config that already exists (a retry with
\* error.config, or a second send of the same config while one is in flight).
\* Whatever _retry the config carries is kept.
SendAgain(r, c) ==
    /\ rpc[r] = "idle"
    /\ ctxLive[c]
    /\ rpc' = [rpc EXCEPT ![r] = "inflight"]
    /\ rcfg' = [rcfg EXCEPT ![r] = c]
    /\ rlog' = [rlog EXCEPT ![r] = DevLog("request")]
    /\ UNCHANGED <<dev, ctxLive, retry, guardSets, rerr, rsignOut, rguardOnEntry, rguardAtCall, rsignOutEnd, rresult>>
    /\ UNCHANGED telemetryVars

\* (response) => response
RespondOk(r) ==
    /\ rpc[r] = "inflight"
    /\ rpc' = [rpc EXCEPT ![r] = "settled"]
    /\ rresult' = [rresult EXCEPT ![r] = Fulfilled]
    /\ UNCHANGED <<dev, ctxLive, retry, guardSets, rcfg, rerr, rsignOut, rguardOnEntry, rguardAtCall, rsignOutEnd, rlog>>
    /\ UNCHANGED telemetryVars

\* Variant: signOut is called but not awaited; the handler rejects at once.
RespondErrorNoAwait(r, error) ==
    /\ rpc[r] = "inflight"
    /\ LET c == rcfg[r]
           warn == IF error.status = Unauthorized THEN {"warn401"} ELSE {}
           recover == ShouldRecover(error.status, retry[c])
       IN  /\ rerr' = [rerr EXCEPT ![r] = error]
           /\ rguardOnEntry' = [rguardOnEntry EXCEPT ![r] = retry[c]]
           /\ retry' = IF recover THEN [retry EXCEPT ![c] = SetGuard(retry[c])] ELSE retry
           /\ guardSets' = [guardSets EXCEPT
                  ![c] = IF ~retry[c] /\ retry'[c] THEN @ + 1 ELSE @]
           /\ rsignOut' = [rsignOut EXCEPT ![r] = IF recover THEN @ + 1 ELSE @]
           /\ rguardAtCall' = [rguardAtCall EXCEPT ![r] = IF recover THEN retry'[c] ELSE @]
           /\ rpc' = [rpc EXCEPT ![r] = "settled"]
           /\ rresult' = [rresult EXCEPT ![r] = RejectWith(error, NoError)]
           /\ rlog' = [rlog EXCEPT ![r] = @ \cup warn \cup DevLog("apiError")]
    /\ UNCHANGED <<dev, ctxLive, rcfg, rsignOutEnd>>
    /\ UNCHANGED telemetryVars

\* async (error) => { ... } up to its first suspension point: either the
\* await of signOut, or (no await reached) the rejection of the promise.
RespondError(r, error) ==
    /\ rpc[r] = "inflight"
    /\ LET c == rcfg[r]
           warn == IF error.status = Unauthorized THEN {"warn401"} ELSE {}
       IN  /\ rerr' = [rerr EXCEPT ![r] = error]
           /\ rguardOnEntry' = [rguardOnEntry EXCEPT ![r] = retry[c]]
           /\ IF ShouldRecover(error.status, retry[c])
              THEN /\ retry' = [retry EXCEPT ![c] = SetGuard(retry[c])]
                   /\ guardSets' = [guardSets EXCEPT
                          ![c] = IF ~retry[c] /\ retry'[c] THEN @ + 1 ELSE @]
                   /\ rsignOut' = [rsignOut EXCEPT ![r] = @ + 1]
                   /\ rguardAtCall' = [rguardAtCall EXCEPT ![r] = retry'[c]]
                   /\ rpc' = [rpc EXCEPT ![r] = "awaitSignOut"]
                   /\ rlog' = [rlog EXCEPT ![r] = @ \cup warn]
                   /\ UNCHANGED rresult
              ELSE /\ rpc' = [rpc EXCEPT ![r] = "settled"]
                   /\ rresult' = [rresult EXCEPT ![r] = RejectWith(error, NoError)]
                   /\ rlog' = [rlog EXCEPT ![r] = @ \cup warn \cup DevLog("apiError")]
                   /\ UNCHANGED <<retry, guardSets, rsignOut, rguardAtCall>>
    /\ UNCHANGED <<dev, ctxLive, rcfg, rsignOutEnd>>
    /\ UNCHANGED telemetryVars

\* The promise of signOut({ redirect: true, callbackUrl: "/auth/signin" })
\* settles; the handler resumes after the try/catch and rejects.
SignOutSettles(r, ok) ==
    /\ rpc[r] = "awaitSignOut"
    /\ rpc' = [rpc EXCEPT ![r] = "settled"]
    /\ rsignOutEnd' = [rsignOutEnd EXCEPT ![r] = IF ok THEN "resolved" ELSE "rejected"]
    /\ rlog' = [rlog EXCEPT ![r] =
           @ \cup (IF ok THEN {} ELSE {"signOutFailed"}) \cup DevLog("apiError")]
    /\ rresult' = [rresult EXCEPT ![r] =
           RejectWith(rerr[r], IF ok THEN NoError ELSE SignOutError)]
    /\ UNCHANGED <<dev, ctxLive, retry, guardSets, rcfg, rerr, rsignOut, rguardOnEntry,
                   rguardAtCall>>
    /\ UNCHANGED telemetryVars

\* --------------------------------------------- Client error telemetry
MaxReports == 2    \* calls of reportFrontendError (direct or from a hook)

Reports == 1..MaxReports

\* JavaScript values that reach the hooks and reportFrontendError.  json tells
\* whether JSON.stringify accepts the value (FALSE: a circular object or a
\* BigInt, for which it throws a TypeError).
ErrorValue(m) == [kind |-> "Error", text |-> m, stack |-> "stack", json |-> TRUE]
StringValue(m) == [kind |-> "string", text |-> m, stack |-> "", json |-> TRUE]
ObjectValue(j) == [kind |-> "object", text |-> "", stack |-> "", json |-> j]
Undefined == [kind |-> "undefined", text |-> "", stack |-> "", json |-> TRUE]

Messages == {"TypeError: x is undefined"}
Thrown == {ErrorValue("TypeError: x is undefined"), StringValue("boom"),
           ObjectValue(TRUE), ObjectValue(FALSE), Undefined}

\* Arguments the runtime passes to window.onerror: (msg, url, line, col, error);
\* error is absent for errors of cross-origin scripts.
ErrorArgs == [msg : Messages, url : {"https://app.example/page"}, line : {10},
              col : {5}, error : Thrown]
\* The event passed to window.onunhandledrejection; reason is any value.
RejectionArgs == [reason : Thrown]

NoExtra == [source |-> "", hasUrl |-> FALSE, url |-> "", json |-> TRUE]

NoPayload == [message |-> Undefined, stack |-> "", url |-> "", source |-> ""]

\* error instanceof Error ? error.message : error
MessageOf(error) == IF error.kind = "Error" THEN StringValue(error.text) ELSE error

\* error instanceof Error ? error.stack : undefined   ("" stands for undefined)
StackOf(error) == IF error.kind = "Error" THEN error.stack ELSE ""

\* { message, stack, url: window.location.href, ..., ...extra }
Payload(error, extra) ==
    [message |-> MessageOf(error),
     stack |-> StackOf(error),
     url |-> IF extra.hasUrl THEN extra.url ELSE "location.href",
     source |-> extra.source]

\* JSON.stringify(payload) returns (TRUE) or throws (FALSE)
Stringifies(error, extra) == MessageOf(error).json /\ extra.json

\* Variant: no try/catch, an exception rejects the promise.
ReportSettleNoCatch(threw) == IF threw THEN "rejected" ELSE "fulfilled"

\* The promise of the async function: the try/catch spans the whole body, so
\* it is fulfilled whether or not something inside threw.
ReportSettle(threw) == "fulfilled"

\* error || new Error(String(msg))
Truthy(v) == v.kind # "undefined" /\ ~(v.kind = "string" /\ v.text = "")
OnErrorValue(msg, error) == IF Truthy(error) THEN error ELSE ErrorValue(msg)

\* Variant: the hook replaces the earlier handler instead of chaining to it.
CallOriginalReplaced(original, args) == <<>>

\* if (originalOnError) originalOnError(msg, url, line, col, error)
\* The result is the list of calls made to the earlier handler.
CallOriginal(original, args) == IF original # "none" THEN <<args>> ELSE <<>>

\* Variant: the hook reports the error as handled.
OnErrorReturnTrue == "true"

\* return false // Allow default console logging
OnErrorReturn == "false"

FreeReport == CHOOSE t \in Reports : tpc[t] = "unused" /\ \A u \in Reports : tpc[u] = "unused" => t <= u
HasFreeReport == \E t \in Reports : tpc[t] = "unused"

\* reportFrontendError(error, extra) up to its first suspension point: the
\* payload is built and serialised and fetch is called; if that throws, the
\* catch logs and the call is over.
StartReport(t, error, extra) ==
    /\ targs' = [targs EXCEPT ![t] = [error |-> error, extra |-> extra]]
    /\ tpayload' = [tpayload EXCEPT ![t] = Payload(error, extra)]
    /\ IF Stringifies(error, extra)
       THEN /\ tpc' = [tpc EXCEPT ![t] = "fetching"]
            /\ tposts' = [tposts EXCEPT ![t] = @ + 1]
            /\ tpromise' = [tpromise EXCEPT ![t] = "pending"]
            /\ UNCHANGED <<tend, tlog>>
       ELSE /\ tpc' = [tpc EXCEPT ![t] = "done"]
            /\ tend' = [tend EXCEPT ![t] = "threw"]
            /\ tlog' = [tlog EXCEPT ![t] = @ \cup {"reportingFailed"}]
            /\ tpromise' = [tpromise EXCEPT ![t] = ReportSettle(TRUE)]
            /\ UNCHANGED tposts

TelemetryInit ==
    /\ installed = FALSE
    /\ winOnError \in {"none", "prev"}
    /\ winOnRejection \in {"none", "prev"}
    /\ originalOnError = "none"
    /\ originalOnUnhandledRejection = "none"
    /\ evLog = <<>>
    /\ tpc = [t \in Reports |-> "unused"]
    /\ targs = [t \in Reports |-> [error |-> Undefined, extra |-> NoExtra]]
    /\ tpayload = [t \in Reports |-> NoPayload]
    /\ tposts = [t \in Reports |-> 0]
    /\ tend = [t \in Reports |-> "none"]
    /\ tpromise = [t \in Reports |-> "none"]
    /\ tlog = [t \in Reports |-> {}]

\* if (typeof window !== "undefined") { ... }: the module body, run once when
\* the page loads the module.
Install ==
    /\ ~installed
    /\ installed' = TRUE
    /\ originalOnError' = winOnError
    /\ winOnError' = "hook"
    /\ originalOnUnhandledRejection' = winOnRejection
    /\ winOnRejection' = "hook"
    /\ UNCHANGED <<evLog, tpc, targs, tpayload, tposts, tend, tpromise, tlog>>
    /\ UNCHANGED clientVars

\* Application code calls reportFrontendError itself (the function exists
\* once the module body has run).
CallReport(error, extra) ==
    /\ installed
    /\ HasFreeReport
    /\ StartReport(FreeReport, error, extra)
    /\ UNCHANGED <<installed, winOnError, winOnRejection, originalOnError,
                   originalOnUnhandledRejection, evLog>>
    /\ UNCHANGED clientVars

\* The runtime raises an uncaught error and calls window.onerror, which is
\* the hook from installation on.
FireOnError(args) ==
    /\ winOnError = "hook"
    /\ HasFreeReport
    /\ LET t == FreeReport IN
       /\ StartReport(t, OnErrorValue(args.msg, args.error),
              [source |-> "window.onerror", hasUrl |-> TRUE,
               url |-> args.url, json |-> TRUE])
       /\ evLog' = Append(evLog,
              [ev |-> "error", args |-> args,
               report |-> t, reportCalls |-> 1, pcAtReturn |-> tpc'[t],
               original |-> originalOnError,
               originalCalls |-> CallOriginal(originalOnError, args),
               ret |-> OnErrorReturn])
    /\ UNCHANGED <<installed, winOnError, winOnRejection, originalOnError,
                   originalOnUnhandledRejection>>
    /\ UNCHANGED clientVars

\* The runtime reports an unhandled rejection and calls
\* window.onunhandledrejection, which is the hook from installation on.
FireOnUnhandledRejection(args) ==
    /\ winOnRejection = "hook"
    /\ HasFreeReport
    /\ LET t == FreeReport IN
       /\ StartReport(t, args.reason,
              [source |-> "unhandledrejection", hasUrl |-> FALSE,
               url |-> "", json |-> TRUE])
       /\ evLog' = Append(evLog,
              [ev |-> "rejection", args |-> args,
               report |-> t, reportCalls |-> 1, pcAtReturn |-> tpc'[t],
               original |-> originalOnUnhandledRejection,
               originalCalls |-> CallOriginal(originalOnUnhandledRejection, args),
               ret |-> "undefined"])
    /\ UNCHANGED <<installed, winOnError, winOnRejection, originalOnError,
                   originalOnUnhandledRejection>>
    /\ UNCHANGED clientVars

\* Variant: a rejected fetch is tried again.
FetchSettlesRetry(t, outcome) ==
    /\ tpc[t] = "fetching"
    /\ CASE outcome = "ok" ->
              /\ tpc' = [tpc EXCEPT ![t] = "done"]
              /\ tend' = [tend EXCEPT ![t] = "ok"]
              /\ tpromise' = [tpromise EXCEPT ![t] = ReportSettle(FALSE)]
              /\ UNCHANGED <<tlog, tposts>>
         [] outcome = "notOk" ->
              /\ tpc' = [tpc EXCEPT ![t] = "readingText"]
              /\ tend' = [tend EXCEPT ![t] = "notOk"]
              /\ UNCHANGED <<tpromise, tlog, tposts>>
         [] outcome = "rejects" ->
              /\ tposts[t] < 2
              /\ tposts' = [tposts EXCEPT ![t] = @ + 1]
              /\ tlog' = [tlog EXCEPT ![t] = @ \cup {"reportingFailed"}]
              /\ UNCHANGED <<tpc, tend, tpromise>>
    /\ UNCHANGED <<installed, winOnError, winOnRejection, originalOnError,
                   originalOnUnhandledRejection, evLog, targs, tpayload>>
    /\ UNCHANGED clientVars

\* const res = await fetch(...) settles: the collector answered (ok or not)
\* or fetch rejected.
FetchSettles(t, outcome) ==
    /\ tpc[t] = "fetching"
    /\ CASE outcome = "ok" ->
              /\ tpc' = [tpc EXCEPT ![t] = "done"]
              /\ tend' = [tend EXCEPT ![t] = "ok"]
              /\ tpromise' = [tpromise EXCEPT ![t] = ReportSettle(FALSE)]
              /\ UNCHANGED tlog
         [] outcome = "notOk" ->
              /\ tpc' = [tpc EXCEPT ![t] = "readingText"]
              /\ tend' = [tend EXCEPT ![t] = "notOk"]
              /\ UNCHANGED <<tpromise, tlog>>
         [] outcome = "rejects" ->
              /\ tpc' = [tpc EXCEPT ![t] = "done"]
              /\ tend' = [tend EXCEPT ![t] = "threw"]
              /\ tlog' = [tlog EXCEPT ![t] = @ \cup {"reportingFailed"}]
              /\ tpromise' = [tpromise EXCEPT ![t] = ReportSettle(TRUE)]
    /\ UNCHANGED <<installed, winOnError, winOnRejection, originalOnError,
                   originalOnUnhandledRejection, evLog, targs, tpayload, tposts>>
    /\ UNCHANGED clientVars

\* console.warn("Failed to report error to backend:", await res.text())
TextSettles(t, ok) ==
    /\ tpc[t] = "readingText"
    /\ tpc' = [tpc EXCEPT ![t] = "done"]
    /\ tlog' = [tlog EXCEPT ![t] =
           @ \cup (IF ok THEN {"backendRefused"} ELSE {"reportingFailed"})]
    /\ tpromise' = [tpromise EXCEPT ![t] = ReportSettle(~ok)]
    /\ UNCHANGED <<installed, winOnError, winOnRejection, originalOnError,
                   originalOnUnhandledRejection, evLog, targs, tpayload, tposts, tend>>
    /\ UNCHANGED clientVars

\* -------------------------------------------------------- specifications
vars == <<clientVars, telemetryVars>>

ClientNext ==
    \/ \E r \in Requests, c \in Contexts : SendFresh(r, c)
    \/ \E r \in Requests, c \in Contexts : SendAgain(r, c)
    \/ \E r \in Requests : RespondOk(r)
    \/ \E r \in Requests, e \in RequestErrors : RespondError(r, e)
    \/ \E r \in Requests, ok \in BOOLEAN : SignOutSettles(r, ok)

DirectErrors == {ErrorValue("TypeError: x is undefined"), StringValue("boom")}
DirectExtras == {NoExtra, [NoExtra EXCEPT !.json = FALSE]}

TelemetryNext ==
    \/ Install
    \/ \E e \in DirectErrors, x \in DirectExtras : CallReport(e, x)
    \/ \E a \in ErrorArgs : FireOnError(a)
    \/ \E a \in RejectionArgs : FireOnUnhandledRejection(a)
    \/ \E t \in Reports, o \in {"ok", "notOk", "rejects"} : FetchSettles(t, o)
    \/ \E t \in Reports, ok \in BOOLEAN : TextSettles(t, ok)

\* The two components do not call each other; each is checked on its own,
\* from the initial states of its own part, with the other part at rest.
InitClient ==
    /\ ClientInit
    /\ TelemetryInit /\ winOnError = "none" /\ winOnRejection = "none"
InitTelemetry ==
    /\ TelemetryInit
    /\ ClientInit /\ dev = FALSE

SpecClient == InitClient /\ [][ClientNext]_vars
SpecTelemetry == InitTelemetry /\ [][TelemetryNext]_vars

\* ------------------------------------------------------------------ claims
\* The handler has run for request r (it is suspended in signOut or done).
Handled(r) == rpc[r] \in {"awaitSignOut", "settled"} /\ rerr[r] # NoError
Got401(r) == Handled(r) /\ rerr[r].status = Unauthorized

RECURSIVE SumSignOut(_, _)
SumSignOut(c, rs) ==
    IF rs = {} THEN 0
    ELSE LET r == CHOOSE x \in rs : TRUE
         IN  (IF rcfg[r] = c THEN rsignOut[r] ELSE 0) + SumSignOut(c, rs \ {r})
\* signOut calls made on behalf of context c
SignOutCalls(c) == SumSignOut(c, Requests)

\* C1: a 401 handled on a context whose _retry was falsy on entry makes
\* exactly one signOut call for that response and leaves _retry true; this
\* holds for every request, so also for a later one with a fresh context.
C1_RecoverOncePer401 ==
    \A r \in Requests :
        (Got401(r) /\ ~rguardOnEntry[r]) => (rsignOut[r] = 1 /\ retry[rcfg[r]])

\* Two requests with their own fresh contexts both got a 401, one after the
\* other, and each made its one signOut call.
C1_Witness ==
    \E r1, r2 \in Requests :
        /\ r1 # r2 /\ rcfg[r1] # rcfg[r2]
        /\ rpc[r1] = "settled" /\ rpc[r2] = "settled"
        /\ Got401(r1) /\ Got401(r2)
        /\ ~rguardOnEntry[r1] /\ ~rguardOnEntry[r2]
        /\ rsignOut[r1] = 1 /\ rsignOut[r2] = 1

\* C2: a 401 handled on a context whose _retry is already true makes no
\* signOut call: the handler warns and rejects without suspending.
C2_NoRecoveryWhenGuarded ==
    \A r \in Requests :
        (Got401(r) /\ rguardOnEntry[r]) =>
            /\ rsignOut[r] = 0
            /\ rsignOutEnd[r] = "none"
            /\ rpc[r] = "settled"
            /\ "warn401" \in rlog[r]
            /\ rresult[r].type = "rejected"

\* A request retried on a config whose first 401 set _retry got a 401 again.
C2_Witness ==
    \E r1, r2 \in Requests :
        /\ r1 # r2 /\ rcfg[r1] = rcfg[r2]
        /\ Got401(r1) /\ rsignOut[r1] = 1
        /\ Got401(r2) /\ rguardOnEntry[r2] /\ rpc[r2] = "settled"

\* C3: a failure that is not an HTTP 401 (another status, a timeout, no
\* response) never calls signOut, and the step that handles it leaves every
\* _retry as it was.
C3_NoRecoveryOnOtherErrors ==
    /\ [](\A r \in Requests :
             (Handled(r) /\ rerr[r].status # Unauthorized) =>
                 (rsignOut[r] = 0 /\ rsignOutEnd[r] = "none"))
    /\ [][\A r \in Requests :
             (rpc[r] = "inflight" /\ rpc'[r] # "inflight" /\ rerr'[r] # NoError
                  /\ rerr'[r].status # Unauthorized)
             => (retry' = retry /\ guardSets' = guardSets /\ rpc'[r] = "settled")]_vars

\* A 500, a timeout and a network failure were handled, the last two on a
\* context whose _retry is still false.
C3_Witness ==
    \E r1, r2, r3 \in Requests :
        /\ Handled(r1) /\ rerr[r1] = HttpError(500)
        /\ Handled(r2) /\ rerr[r2] = TimeoutError /\ ~retry[rcfg[r2]]
        /\ Handled(r3) /\ rerr[r3] = NetworkError

\* C4: whenever the handler is done, the caller's promise is rejected with the
\* error the handler was given; a rejected signOut is logged and changes
\* nothing about that.
C4_OriginalErrorReachesCaller ==
    \A r \in Requests :
        (rpc[r] = "settled" /\ rerr[r] # NoError) =>
            /\ rresult[r] = Rejected(rerr[r])
            /\ (rsignOutEnd[r] = "rejected" => "signOutFailed" \in rlog[r])

\* signOut failed for a 401 and the caller still got the 401 error.
C4_Witness ==
    \E r \in Requests :
        /\ rpc[r] = "settled" /\ rsignOutEnd[r] = "rejected"
        /\ rresult[r] = Rejected(HttpError(Unauthorized))

\* C5: _retry of a context, once true, stays true, so it goes from false to
\* true at most once.
C5_GuardNeverReset ==
    /\ [][\A c \in Contexts : retry[c] => retry'[c]]_vars
    /\ [](\A c \in Contexts : guardSets[c] <= 1)

\* A context whose _retry was set is sent again, gets a 401 again, and the
\* flag is still set.
C5_Witness ==
    \E r1, r2 \in Requests :
        /\ r1 # r2 /\ rcfg[r1] = rcfg[r2]
        /\ rpc[r1] = "settled" /\ rsignOut[r1] = 1
        /\ rpc[r2] = "settled" /\ Got401(r2) /\ rguardOnEntry[r2]
        /\ retry[rcfg[r1]] /\ guardSets[rcfg[r1]] = 1

\* C6: under every interleaving, the signOut calls made for a context number
\* one if one of its requests got a 401 and zero otherwise (no deduplication
\* across contexts), and the step that makes the call is the step that sets
\* _retry: no other handler runs between the check and the set.
C6_OncePerContext ==
    /\ [](\A c \in Contexts :
             SignOutCalls(c) = IF \E r \in Requests : rcfg[r] = c /\ Got401(r)
                               THEN 1 ELSE 0)
    /\ [][\A r \in Requests :
             rsignOut'[r] > rsignOut[r] =>
                 (~retry[rcfg[r]] /\ retry'[rcfg[r]] /\ rpc'[r] = "awaitSignOut")]_vars

\* Two requests of one context and one of another are in flight together; the
\* second request of the first context gets its 401 while the first one is
\* still suspended in signOut, and the other context made its own call.
C6_Witness ==
    \E r1, r2, r3 \in Requests :
        /\ rcfg[r1] = rcfg[r2] /\ r1 # r2 /\ rcfg[r3] # rcfg[r1]
        /\ rpc[r1] = "awaitSignOut"
        /\ rpc[r2] = "settled" /\ Got401(r2) /\ rsignOut[r2] = 0
        /\ Got401(r3) /\ rsignOut[r3] = 1
        /\ SignOutCalls(rcfg[r1]) = 1 /\ SignOutCalls(rcfg[r3]) = 1

\* Where a report stands in its life cycle.
ReportState(t) ==
    CASE tpc[t] = "unused" -> "NONE"
      [] tpc[t] = "fetching" -> "DELIVERY_ATTEMPTED"
      [] tpc[t] = "done" /\ tend[t] = "ok" -> "DELIVERED"
      [] OTHER -> "DELIVERY_FAILED"

\* C7: the promise of reportFrontendError is never rejected; when the call is
\* over it is fulfilled, and a failed delivery (an exception, or a non-OK
\* answer) has left a line on the local console.
C7_ReportNeverRejects ==
    \A t \in Reports :
        /\ tpromise[t] # "rejected"
        /\ tpc[t] = "done" =>
              /\ tpromise[t] = "fulfilled"
              /\ (tend[t] \in {"threw", "notOk"} => tlog[t] # {})

\* One call whose fetch rejected and one whose collector answered non-OK are
\* both over, both fulfilled.
C7_Witness ==
    \E t, u \in Reports :
        /\ tpc[t] = "done" /\ tposts[t] = 1 /\ tend[t] = "threw"
        /\ tpc[u] = "done" /\ tend[u] = "notOk"
        /\ tpromise[t] = "fulfilled" /\ tpromise[u] = "fulfilled"

\* C8 as stated: every call that was made has issued exactly one POST.
C8_ExactlyOnePost ==
    \A t \in Reports : tpc[t] # "unused" => tposts[t] = 1

\* C8 (amended): a call issues one POST if JSON.stringify accepts its payload
\* and none if it throws (the call is then over, failed and logged); the count
\* never grows past one (no retry), a call that is over stays as it ended, and
\* a step of one call changes nothing of another.
C8_AtMostOnePost ==
    /\ [](\A t \in Reports : tpc[t] # "unused" =>
             /\ tposts[t] = IF MessageOf(targs[t].error).json /\ targs[t].extra.json
                            THEN 1 ELSE 0
             /\ (tposts[t] = 0 => (ReportState(t) = "DELIVERY_FAILED"
                                    /\ "reportingFailed" \in tlog[t]))
             /\ (tpc[t] = "done" => ReportState(t) \in {"DELIVERED", "DELIVERY_FAILED"}))
    /\ [][\A t \in Reports :
             /\ (tpc[t] # "unused" => tposts'[t] = tposts[t])
             /\ (ReportState(t) \in {"DELIVERED", "DELIVERY_FAILED"} =>
                    ReportState(t)' = ReportState(t))
             /\ (tpc'[t] # tpc[t] =>
                    \A u \in Reports \ {t} :
                        /\ tpc'[u] = tpc[u] /\ tend'[u] = tend[u]
                        /\ tposts'[u] = tposts[u] /\ tpromise'[u] = tpromise[u])]_vars

\* Two calls with the same Error value each issued their POST; one was
\* delivered and the other failed.
C8_Witness ==
    \E t, u \in Reports :
        /\ t # u /\ targs[t] = targs[u] /\ targs[t].error.kind = "Error"
        /\ tposts[t] = 1 /\ tposts[u] = 1
        /\ ReportState(t) = "DELIVERED"
        /\ tpc[u] = "done" /\ ReportState(u) = "DELIVERY_FAILED"

\* C9: each time an installed hook fires and a handler was registered before
\* installation, that handler is called once, with the arguments of the event.
C9_HooksChain ==
    \A i \in DOMAIN evLog :
        evLog[i].original # "none" =>
            evLog[i].originalCalls = <<evLog[i].args>>

\* After installation an error and an unhandled rejection both reached the
\* handlers registered before.
C9_Witness ==
    \E i, j \in DOMAIN evLog :
        /\ evLog[i].ev = "error" /\ evLog[i].original = "prev"
        /\ evLog[j].ev = "rejection" /\ evLog[j].original = "prev"
        /\ evLog[i].originalCalls # <<>> /\ evLog[j].originalCalls # <<>>

\* C10: each firing of the window.onerror hook calls reportFrontendError once
\* and returns false while the POST it issued (if any) is still in flight; what
\* it returned does not change when the delivery later succeeds or fails.
C10_OnErrorReturnsFalse ==
    /\ [](\A i \in DOMAIN evLog :
             evLog[i].ev = "error" =>
                 /\ evLog[i].ret = "false"
                 /\ evLog[i].reportCalls = 1
                 /\ tpc[evLog[i].report] # "unused"
                 /\ (tposts[evLog[i].report] = 1 => evLog[i].pcAtReturn = "fetching"))
    /\ [][\A i \in DOMAIN evLog : evLog'[i] = evLog[i]]_vars

\* The hook fired twice; one report was delivered, the other failed.
C10_Witness ==
    \E i, j \in DOMAIN evLog :
        /\ evLog[i].ev = "error" /\ evLog[i].ret = "false"
        /\ evLog[j].ev = "error" /\ evLog[j].ret = "false"
        /\ ReportState(evLog[i].report) = "DELIVERED"
        /\ ReportState(evLog[j].report) = "DELIVERY_FAILED"

\* The redirect to /auth/signin has taken place for context c: a signOut
\* call made for it resolved.
Redirected(c) == \E q \in Requests : rcfg[q] = c /\ rsignOutEnd[q] = "resolved"
SignOutPending(c) == \E q \in Requests : rcfg[q] = c /\ rpc[q] = "awaitSignOut"

\* C11 as stated: once a request has received a 401 and no signOut call of
\* its context is still pending, the sign-out with redirect has taken place.
C11_RedirectAfter401 ==
    \A r \in Requests :
        (Got401(r) /\ ~SignOutPending(rcfg[r])) => Redirected(rcfg[r])

\* C11 (amended): as soon as a request has received a 401, signOut has been
\* called once for its context; the redirect has taken place exactly if that
\* call resolved, and a call that was rejected is on the console.
C11_SignOutAttemptedOn401 ==
    \A r \in Requests :
        Got401(r) =>
            \E q \in Requests :
                /\ rcfg[q] = rcfg[r] /\ rsignOut[q] = 1
                /\ SignOutCalls(rcfg[r]) = 1
                /\ (Redirected(rcfg[r]) <=> rsignOutEnd[q] = "resolved")
                /\ (rsignOutEnd[q] = "rejected" => "signOutFailed" \in rlog[q])

\* The signOut of one context failed and a retry on it got a 401 again: no
\* redirect there; the signOut of another context resolved: redirect.
C11_Witness ==
    \E r1, r2, r3 \in Requests :
        /\ r1 # r2 /\ rcfg[r1] = rcfg[r2] /\ rcfg[r3] # rcfg[r1]
        /\ rsignOutEnd[r1] = "rejected"
        /\ Got401(r2) /\ rguardOnEntry[r2] /\ rpc[r2] = "settled"
        /\ ~Redirected(rcfg[r1])
        /\ Got401(r3) /\ Redirected(rcfg[r3])

\* C12: the payload of every call has a string message: a string argument
\* gives that string with no stack, an Error argument gives its message and
\* its stack; this covers every reason the unhandledrejection hook passes on.
C12_MessageIsString ==
    \A t \in Reports :
        tpc[t] # "unused" =>
            /\ tpayload[t].message.kind = "string"
            /\ (targs[t].error.kind = "string" =>
                   (tpayload[t].message = targs[t].error /\ tpayload[t].stack = ""))
            /\ (targs[t].error.kind = "Error" =>
                   (tpayload[t].message = StringValue(targs[t].error.text)
                    /\ tpayload[t].stack = targs[t].error.stack))

\* C13: on a 401 with _retry falsy on entry, _retry is already true when
\* signOut is called, the caller's promise stays pending while signOut is
\* awaited and is rejected only once signOut has settled, and whenever the
\* caller holds the 401 error _retry is true.
C13_GuardThenSignOutThenReject ==
    \A r \in Requests :
        (Got401(r) /\ ~rguardOnEntry[r]) =>
            /\ rsignOut[r] = 1 /\ rguardAtCall[r]
            /\ (rpc[r] = "awaitSignOut" =>
                   (rresult[r] = NoResult /\ rsignOutEnd[r] = "none"))
            /\ (rresult[r] # NoResult =>
                   /\ rsignOutEnd[r] \in {"resolved", "rejected"}
                   /\ rresult[r] = Rejected(HttpError(Unauthorized))
                   /\ retry[rcfg[r]])

\* One request is still suspended in signOut with its result pending, and
\* another got its 401 error only after its signOut had failed.
C13_Witness ==
    \E r1, r2 \in Requests :
        /\ Got401(r1) /\ ~rguardOnEntry[r1] /\ rpc[r1] = "awaitSignOut"
        /\ rguardAtCall[r1] /\ rresult[r1] = NoResult
        /\ Got401(r2) /\ ~rguardOnEntry[r2] /\ rsignOutEnd[r2] = "rejected"
        /\ rresult[r2] = Rejected(HttpError(Unauthorized)) /\ retry[rcfg[r2]]
====
